---------------------------- MODULE Spec2Model ----------------------------
(***************************************************************************)
(* Model of the Estidama daylight compliance engine                        *)
(* (pollination-apps/estidama-daylight).                                   *)
(*                                                                         *)
(*   - check_shade_width, Window and OccupiedArea of src/estidama.py       *)
(*   - percentage_complied, prepare_results and result of src/result.py    *)
(*   - the thresholds of select_program in src/introduction.py             *)
(*                                                                         *)
(* Lengths are integers in centimetres.  Where the code halves a           *)
(* coordinate (bounding-box centre, edge midpoint) the model keeps the     *)
(* doubled value, so that every quantity stays an integer: a "doubled"     *)
(* point is in half-centimetres and a squared distance between doubled     *)
(* points is in (half-centimetres)^2.                                      *)
(***************************************************************************)
EXTENDS Integers, Sequences, FiniteSets, TLC

VARIABLES
    shade,          \* the Shade handed to check_shade_width
    tolerance,      \* the tolerance argument (centimetres)
    width_check,    \* what check_shade_width returned, or Pending
    aperture,       \* the Aperture handed to Window
    program,        \* the selected building program
    window,         \* the Window object after __init__, or Pending
    room,           \* the Room handed to OccupiedArea
    occupied_area,  \* the OccupiedArea object after __init__, or Pending
    details,        \* what to_dict() of the OccupiedArea returned, or Pending
    occupied_rooms, \* the rooms handed to result / prepare_results
    res_file,       \* the result file percentage_complied opened last
    results,        \* the local variables of prepare_results
    outcome,        \* what result() ended with: the percentage and the credits, or an error
    session,        \* what one browser session keeps between two runs of the script
    pc              \* the position of the operation under study

scoring == <<occupied_rooms, res_file, results, outcome>>

vars == <<shade, tolerance, width_check, aperture, program, window,
          room, occupied_area, details, occupied_rooms, res_file, results, outcome,
          session, pc>>

\* The value of a variable that holds no object (yet).
Pending == "pending"
NoInput == "none"

\* Python's None where the code expects a tuple: falsy, like the empty tuple.
None == <<>>

(***************************************************************************)
(* Geometry primitives used by check_shade_width.                          *)
(***************************************************************************)
SeqMin(s) == CHOOSE m \in {s[i] : i \in 1..Len(s)} : \A i \in 1..Len(s) : m <= s[i]

SeqMax(s) == CHOOSE m \in {s[i] : i \in 1..Len(s)} : \A i \in 1..Len(s) : m >= s[i]

Coord(vs, c) == [i \in 1..Len(vs) |-> vs[i][c]]

\* geo.center: the centre of the bounding box of the vertices (doubled).
center(vs) ==
    <<SeqMin(Coord(vs, 1)) + SeqMax(Coord(vs, 1)),
      SeqMin(Coord(vs, 2)) + SeqMax(Coord(vs, 2)),
      SeqMin(Coord(vs, 3)) + SeqMax(Coord(vs, 3))>>

\* geo.boundary_segments: one segment per pair of consecutive vertices,
\* the last vertex joined to the first.
boundary_segments(vs) ==
    [i \in 1..Len(vs) |-> <<vs[i], vs[(i % Len(vs)) + 1]>>]

\* line.midpoint (doubled).
midpoint(line) ==
    <<line[1][1] + line[2][1], line[1][2] + line[2][2], line[1][3] + line[2][3]>>

\* The square of a.distance_to_point(b) for doubled points a and b.
distance_sq(a, b) ==
    (a[1] - b[1]) * (a[1] - b[1]) + (a[2] - b[2]) * (a[2] - b[2])
        + (a[3] - b[3]) * (a[3] - b[3])

\* The tenths k at which the double nearest (k - 0.5)/10 lies above the
\* decimal tie, so that Python's round(x, 1) goes up to k/10; at every other
\* tie it goes down to (k - 1)/10.  (2.05 is stored just below 2.05, so
\* round(2.05, 1) is 2.0.)
TieRoundsUp ==
    {1, 5, 6, 7, 8, 11, 14, 16, 18, 19, 24, 25, 28, 29, 30, 34, 35, 38, 39,
     40, 42, 45, 47, 48, 50, 52, 55, 57, 58, 60}

RECURSIVE RoundFrom(_, _)
RoundFrom(d2, k) ==
    LET up == (20 * k + 10) * (20 * k + 10)
    IN  IF d2 < up \/ (d2 = up /\ (k + 1) \notin TieRoundsUp)
        THEN k
        ELSE RoundFrom(d2, k + 1)

\* Mutant of round_1: the distance truncated to one decimal instead of rounded.
RECURSIVE TruncateFrom(_, _)
TruncateFrom(d2, k) ==
    IF d2 < (20 * (k + 1)) * (20 * (k + 1)) THEN k ELSE TruncateFrom(d2, k + 1)

round_1_truncating(d2) == TruncateFrom(d2, 0)

\* round(dis, 1) in tenths of a metre, for the squared doubled distance d2:
\* one tenth of a metre is 20 half-centimetres.
round_1(d2) == RoundFrom(d2, 0)

\* shade.geometry.is_horizontal(tolerance): the vertices span no more than
\* the tolerance in z.
is_horizontal(vs, tol) == SeqMax(Coord(vs, 3)) - SeqMin(Coord(vs, 3)) <= tol

\* right_edge.closest_point(p) for a vertical edge and a doubled point p:
\* the projection of p on the edge's line, clamped to the edge's ends.
closest_point(edge, p) ==
    LET lo == 2 * (IF edge[1][3] <= edge[2][3] THEN edge[1][3] ELSE edge[2][3])
        hi == 2 * (IF edge[1][3] <= edge[2][3] THEN edge[2][3] ELSE edge[1][3])
        z  == IF p[3] < lo THEN lo ELSE IF p[3] > hi THEN hi ELSE p[3]
    IN  <<2 * edge[1][1], 2 * edge[1][2], z>>

(***************************************************************************)
(* check_shade_width (src/estidama.py).                                    *)
(***************************************************************************)
warning_1(s) == <<FALSE, "Shade " \o s.display_name \o " is wider than 4 meters.">>

warning_2(s) ==
    <<FALSE, "The app could not validate shade " \o s.display_name \o "."
             \o " Make sure the width is less than 4 meters wide.">>

\* 2.0 metres in tenths of a metre, and 4.0 metres in half-centimetres.
RadialLimit == 20
SpanLimit == 800

\* The loop over geo.boundary_segments, from segment i on: it returns at the
\* first segment whose rounded distance from the centre exceeds 2.0.
RECURSIVE SegmentLoop(_, _, _)
SegmentLoop(s, lines, i) ==
    IF i > Len(lines)
    THEN <<TRUE, "">>
    ELSE IF round_1(distance_sq(center(s.vertices), midpoint(lines[i]))) > RadialLimit
         THEN warning_1(s)
         ELSE SegmentLoop(s, lines, i + 1)

\* Mutant of ComplexBranch: a polygon whose edges cannot be extracted falls
\* through to the passing return.
ComplexBranch_failing_open(s, tol) ==
    IF ~ is_horizontal(s.vertices, tol)
    THEN IF s.left_right_edges # None
         THEN LET left_edge  == s.left_right_edges[1]
                  right_edge == s.left_right_edges[2]
                  point      == closest_point(right_edge, midpoint(left_edge))
              IN  IF distance_sq(midpoint(left_edge), point) > SpanLimit * SpanLimit
                  THEN warning_1(s)
                  ELSE <<TRUE, "">>
         ELSE <<TRUE, "">>
    ELSE warning_2(s)

\* The branch for more than four vertices.
ComplexBranch(s, tol) ==
    IF ~ is_horizontal(s.vertices, tol)
    THEN IF s.left_right_edges # None
         THEN LET left_edge  == s.left_right_edges[1]
                  right_edge == s.left_right_edges[2]
                  point      == closest_point(right_edge, midpoint(left_edge))
              IN  IF distance_sq(midpoint(left_edge), point) > SpanLimit * SpanLimit
                  THEN warning_1(s)
                  ELSE <<TRUE, "">>
         ELSE warning_2(s)
    ELSE warning_2(s)

check_shade_width(s, tol) ==
    IF Len(s.vertices) <= 4
    THEN SegmentLoop(s, boundary_segments(s.vertices), 1)
    ELSE ComplexBranch(s, tol)

(***************************************************************************)
(* Shades.  A shade is its display name, its vertices and, for the call    *)
(* the code makes on polygons of more than four vertices, what             *)
(* get_left_right_vertical_edges returns for it: None, or the             *)
(* pair <<left_edge, right_edge>>.                                         *)
(***************************************************************************)
Shade(name, vs, lr) == [display_name |-> name, vertices |-> vs, left_right_edges |-> lr]

\* A rectangle in the vertical x-z plane, w wide and h high.
Rect(name, w, h) ==
    Shade(name, << <<0, 0, 0>>, <<w, 0, 0>>, <<w, 0, h>>, <<0, 0, h>> >>, None)

\* A right triangle in the vertical x-z plane.
Tri(name, w, h) ==
    Shade(name, << <<0, 0, 0>>, <<w, 0, 0>>, <<0, 0, h>> >>, None)

\* The vertices of an L-shaped hexagon in the vertical x-z plane, w wide.
LVertices(w) ==
    << <<0, 0, 0>>, <<w, 0, 0>>, <<w, 0, 200>>, <<w - 50, 0, 200>>,
       <<w - 50, 0, 100>>, <<0, 0, 100>> >>

\* The vertical boundary edges of a polygon: those that run along z only.
VerticalEdges(vs) ==
    {e \in {boundary_segments(vs)[i] : i \in 1..Len(vs)} :
        e[1][1] = e[2][1] /\ e[1][2] = e[2][2] /\ e[1][3] # e[2][3]}

\* An octagon w wide whose vertices span dz in z: flat for dz = 0.
OctVertices(w, dz) ==
    << <<100, 0, 0>>, <<w - 100, 0, 0>>, <<w, 100, dz>>, <<w, 200, dz>>,
       <<w - 100, 300, dz>>, <<100, 300, dz>>, <<0, 200, 0>>, <<0, 100, 0>> >>

\* Side lengths around the 4 m limit (centimetres).
Lengths == {150, 300, 396, 400, 404, 408, 410, 412, 420, 500}

SimpleShades ==
    {Rect("rect", w, h) : w \in Lengths, h \in {150, 300, 408, 500}}
        \cup {Tri("tri", w, h) : w \in Lengths, h \in {150, 500}}

ComplexShades ==
    UNION {{Shade("lshape", LVertices(w), lr) :
                lr \in {None} \cup {<<l, r>> : l, r \in VerticalEdges(LVertices(w))}} :
           w \in {300, 400, 401, 500}}
        \cup {Shade("octagon", OctVertices(w, dz), None) :
                w \in {300, 500}, dz \in {0, 1, 5, 20}}

ShadeInputs == SimpleShades \cup ComplexShades

Tolerances == {1, 10}

(***************************************************************************)
(* SpecShade: check_shade_width applied to every shade of ShadeInputs.     *)
(***************************************************************************)
InitShade ==
    /\ shade \in ShadeInputs
    /\ tolerance \in Tolerances
    /\ width_check = Pending
    /\ aperture = NoInput
    /\ program = NoInput
    /\ window = Pending
    /\ room = NoInput
    /\ occupied_area = Pending
    /\ details = Pending
    /\ occupied_rooms = NoInput
    /\ res_file = NoInput
    /\ results = Pending
    /\ outcome = Pending
    /\ session = NoInput
    /\ pc = "start"

CheckShadeWidth ==
    /\ pc = "start"
    /\ width_check' = check_shade_width(shade, tolerance)
    /\ pc' = "done"
    /\ UNCHANGED <<shade, tolerance, aperture, program, window, room, occupied_area,
                   details, scoring, session>>

NextShade == CheckShadeWidth

SpecShade == InitShade /\ [][NextShade]_vars


(***************************************************************************)
(* Window (src/estidama.py).                                               *)
(***************************************************************************)
\* class Program(Enum): the values of the building programs.
ProgramValues == {"General", "Retail", "Residential", "School"}

SchoolWarning == "For the program type of \"School\" shades are required."

\* Python's all() over a list of booleans: True for the empty list.
all(bools) == \A i \in 1..Len(bools) : bools[i]

\* The checks and the warnings lists filled by the loop over indoor_shades.
checks(ap, tol) ==
    [i \in 1..Len(ap.indoor_shades) |-> check_shade_width(ap.indoor_shades[i], tol)[1]]

warnings(ap, tol) ==
    [i \in 1..Len(ap.indoor_shades) |-> check_shade_width(ap.indoor_shades[i], tol)[2]]

\* Mutant of has_external_shades: outdoor shades checked for width like
\* indoor ones.
has_external_shades_width_checked(ap) ==
    /\ Len(ap.outdoor_shades) > 0
    /\ \A i \in 1..Len(ap.outdoor_shades) : check_shade_width(ap.outdoor_shades[i], 1)[1]

has_external_shades(ap) == Len(ap.outdoor_shades) > 0

has_internal_shades(ap, tol) ==
    Len(ap.indoor_shades) > 0 /\ all(checks(ap, tol))

\* Mutant of width_warnings: the indoor shades of a window that has an
\* outdoor shade leave no warning.
width_warnings_unless_outdoor_shades(ap, tol) ==
    IF Len(ap.outdoor_shades) = 0 /\ Len(ap.indoor_shades) > 0 /\ ~ all(checks(ap, tol))
    THEN SelectSeq(warnings(ap, tol), LAMBDA w : w # "")
    ELSE <<>>

\* Mutant of width_warnings: the empty warnings of passing shades are kept.
width_warnings_unfiltered(ap, tol) ==
    IF Len(ap.indoor_shades) > 0 /\ ~ all(checks(ap, tol))
    THEN warnings(ap, tol)
    ELSE <<>>

\* What the indoor-shade block appends to self._warnings: when some check
\* failed, every warning that is not the empty string.
width_warnings(ap, tol) ==
    IF Len(ap.indoor_shades) > 0 /\ ~ all(checks(ap, tol))
    THEN SelectSeq(warnings(ap, tol), LAMBDA w : w # "")
    ELSE <<>>

\* Mutant of program_warnings: the warning added whatever the program.
program_warnings_for_any_program(has_shades, prog) ==
    IF ~ has_shades THEN <<SchoolWarning>> ELSE <<>>

\* What the last block appends: the School warning for a window without
\* shades.
program_warnings(has_shades, prog) ==
    IF ~ has_shades /\ prog = "School" THEN <<SchoolWarning>> ELSE <<>>

\* Window.__init__, _evaluate included.
Window(ap, prog, tol) ==
    LET ext == has_external_shades(ap)
        int == has_internal_shades(ap, tol)
    IN  [name                |-> ap.display_name,
         has_external_shades |-> ext,
         has_internal_shades |-> int,
         has_shades          |-> ext \/ int,
         warnings            |-> width_warnings(ap, tol)
                                    \o program_warnings(ext \/ int, prog)]

\* Mutant of window_to_dict: the 'warning' key kept when there are no
\* warnings.
window_to_dict_keeping_warning(w) ==
    [name                |-> w.name,
     has_external_shades |-> w.has_external_shades,
     has_internal_shades |-> w.has_internal_shades,
     warning             |-> w.warnings]

\* Window.to_dict: the 'warning' key is dropped when there are no warnings.
window_to_dict(w) ==
    IF w.warnings = <<>>
    THEN [name                |-> w.name,
          has_external_shades |-> w.has_external_shades,
          has_internal_shades |-> w.has_internal_shades]
    ELSE [name                |-> w.name,
          has_external_shades |-> w.has_external_shades,
          has_internal_shades |-> w.has_internal_shades,
          warning             |-> w.warnings]

(***************************************************************************)
(* Apertures.                                                              *)
(***************************************************************************)
Aperture(name, outdoor, indoor) ==
    [display_name |-> name, outdoor_shades |-> outdoor, indoor_shades |-> indoor]

\* Sequences over S of length at most n.
SeqUpTo(S, n) == UNION {[1..k -> S] : k \in 0..n}

MaxOutdoor == 1
MaxIndoor == 2

\* Indoor shades: one that passes, one that is 5 m wide, one that cannot be
\* validated (a flat octagon).
IndoorShadeInputs ==
    {Rect("blind", 300, 150), Rect("curtain", 500, 150),
     Shade("canopy", OctVertices(300, 0), None)}

\* An outdoor shade 5 m wide: it would fail check_shade_width.
OutdoorShadeInputs == {Rect("fin", 500, 150)}

ApertureInputs ==
    {Aperture("aperture", outdoor, indoor) :
        outdoor \in SeqUpTo(OutdoorShadeInputs, MaxOutdoor),
        indoor \in SeqUpTo(IndoorShadeInputs, MaxIndoor)}

(***************************************************************************)
(* SpecWindow: a Window constructed for every aperture of ApertureInputs   *)
(* under every program.                                                    *)
(***************************************************************************)
InitWindow ==
    /\ shade = NoInput
    /\ tolerance \in Tolerances
    /\ width_check = Pending
    /\ aperture \in ApertureInputs
    /\ program \in ProgramValues
    /\ window = Pending
    /\ room = NoInput
    /\ occupied_area = Pending
    /\ details = Pending
    /\ occupied_rooms = NoInput
    /\ res_file = NoInput
    /\ results = Pending
    /\ outcome = Pending
    /\ session = NoInput
    /\ pc = "start"

NewWindow ==
    /\ pc = "start"
    /\ window' = Window(aperture, program, tolerance)
    /\ pc' = "done"
    /\ UNCHANGED <<shade, tolerance, width_check, aperture, program, room, occupied_area,
                   details, scoring, session>>

NextWindow == NewWindow

SpecWindow == InitWindow /\ [][NextWindow]_vars

(***************************************************************************)
(* OccupiedArea (src/estidama.py).                                         *)
(***************************************************************************)
\* The apertures in the order the two nested loops of _evaluate visit them:
\* faces in room order, apertures in face order.  A face without apertures
\* is skipped.
RECURSIVE visited_apertures(_)
visited_apertures(faces) ==
    IF faces = <<>>
    THEN <<>>
    ELSE (IF Head(faces) # <<>> THEN Head(faces) ELSE <<>>)
             \o visited_apertures(Tail(faces))

\* Mutant of returns_early: the faces tested instead of the area.
returns_early_on_no_faces(r) == r.faces = <<>>

\* The early return of _evaluate.
returns_early(r) == r.exterior_aperture_area = 0

\* Mutant of extend_warnings: the warnings of a window put in front of those
\* collected so far.
RECURSIVE extend_warnings_at_the_front(_)
extend_warnings_at_the_front(ws) ==
    IF ws = <<>>
    THEN <<>>
    ELSE extend_warnings_at_the_front(Tail(ws)) \o Head(ws).warnings

\* self._warnings after the loop: every window's warnings, in visiting order.
RECURSIVE extend_warnings(_)
extend_warnings(ws) ==
    IF ws = <<>> THEN <<>> ELSE Head(ws).warnings \o extend_warnings(Tail(ws))

\* OccupiedArea.__init__, _evaluate included.  The field windows_created
\* holds the Window objects the loop constructed; self._windows holds their
\* to_dict().
OccupiedArea(r, prog, tol) ==
    IF returns_early(r)
    THEN [name            |-> r.display_name,
          has_windows     |-> FALSE,
          has_shades      |-> FALSE,
          windows         |-> <<>>,
          warnings        |-> <<>>,
          windows_created |-> <<>>]
    ELSE LET aps == visited_apertures(r.faces)
             ws  == [i \in 1..Len(aps) |-> Window(aps[i], prog, tol)]
             has_shades == [i \in 1..Len(ws) |-> ws[i].has_shades]
         IN  [name            |-> r.display_name,
              has_windows     |-> TRUE,
              has_shades      |-> all(has_shades),
              windows         |-> [i \in 1..Len(ws) |-> window_to_dict(ws[i])],
              warnings        |-> extend_warnings(ws),
              windows_created |-> ws]

\* OccupiedArea.to_dict
occupied_area_to_dict(oa) ==
    [name        |-> oa.name,
     has_windows |-> oa.has_windows,
     has_shades  |-> oa.has_shades,
     windows     |-> oa.windows]

(***************************************************************************)
(* Rooms.  A room is its display name, the exterior aperture area the      *)
(* model reports for it (0 or positive, in square centimetres) and its     *)
(* faces, each the list of its apertures.  The code reads the area and the *)
(* faces independently, so the inputs combine them freely: apertures of    *)
(* interior faces under an area of 0, and a positive area over faces that  *)
(* expose no aperture.                                                     *)
(***************************************************************************)
MaxFaces == 2
MaxApertures == 2

\* A window shaded by an outdoor fin, and one with two indoor shades, a
\* blind that passes and a curtain 5 m wide (not shaded, one width warning).
RoomApertureInputs ==
    {Aperture("finned", <<Rect("fin", 500, 150)>>, <<>>),
     Aperture("curtained", <<>>, <<Rect("blind", 300, 150), Rect("curtain", 500, 150)>>)}

ExteriorApertureAreas == {0, 25000}

\* Rooms whose windows carry different warnings: a drape 5 m wide, a canopy
\* that cannot be validated (a flat octagon), the curtained and the finned
\* window, on faces of two apertures, of one and of none.
MixedRooms ==
    LET finned    == Aperture("finned", <<Rect("fin", 500, 150)>>, <<>>)
        curtained == Aperture("curtained", <<>>,
                              <<Rect("blind", 300, 150), Rect("curtain", 500, 150)>>)
        draped    == Aperture("draped", <<>>, <<Rect("drape", 500, 150)>>)
        canopied  == Aperture("canopied", <<>>,
                              <<Shade("canopy", OctVertices(300, 0), None)>>)
    IN  {[display_name |-> "room", exterior_aperture_area |-> 25000, faces |-> f] :
            f \in {<< <<draped, curtained>>, <<>>, <<canopied, finned>> >>,
                    << <<curtained>>, <<draped>> >>,
                    << <<canopied>>, <<curtained, draped>> >>}}

RoomInputs ==
    {[display_name |-> "room", exterior_aperture_area |-> a, faces |-> f] :
        a \in ExteriorApertureAreas,
        f \in SeqUpTo(SeqUpTo(RoomApertureInputs, MaxApertures), MaxFaces)}
        \cup MixedRooms

(***************************************************************************)
(* SpecRoom: an OccupiedArea constructed for every room of RoomInputs      *)
(* under every program, and its to_dict() called, as validate does.        *)
(***************************************************************************)
InitRoom ==
    /\ shade = NoInput
    /\ tolerance = 1
    /\ width_check = Pending
    /\ aperture = NoInput
    /\ program \in ProgramValues
    /\ window = Pending
    /\ room \in RoomInputs
    /\ occupied_area = Pending
    /\ details = Pending
    /\ occupied_rooms = NoInput
    /\ res_file = NoInput
    /\ results = Pending
    /\ outcome = Pending
    /\ session = NoInput
    /\ pc = "start"

NewOccupiedArea ==
    /\ pc = "start"
    /\ occupied_area' = OccupiedArea(room, program, tolerance)
    /\ pc' = "done"
    /\ UNCHANGED <<shade, tolerance, width_check, aperture, program, window, room,
                   details, scoring, session>>

\* Mutant of ToDict: to_dict() hands the lists of the object over and
\* leaves the object without them.
ToDict_emptying_the_object ==
    /\ pc = "done"
    /\ details' = occupied_area_to_dict(occupied_area)
    /\ occupied_area' = [occupied_area EXCEPT !.windows = <<>>, !.warnings = <<>>]
    /\ pc' = "dict"
    /\ UNCHANGED <<shade, tolerance, width_check, aperture, program, window, room,
                   scoring, session>>

\* occupied_area.to_dict(), called on the object after its construction.
ToDict ==
    /\ pc = "done"
    /\ details' = occupied_area_to_dict(occupied_area)
    /\ pc' = "dict"
    /\ UNCHANGED <<shade, tolerance, width_check, aperture, program, window, room,
                   occupied_area, scoring, session>>

NextRoom == NewOccupiedArea \/ ToDict

SpecRoom == InitRoom /\ [][NextRoom]_vars

(***************************************************************************)
(* Scoring (src/result.py).  Areas, fractions and percentages are exact    *)
(* rationals <<numerator, denominator>> in lowest terms with a positive    *)
(* denominator, where the code computes in floating point.                 *)
(***************************************************************************)
RECURSIVE GCD(_, _)
GCD(a, b) == IF b = 0 THEN a ELSE GCD(b, a % b)

Rat(n, d) ==
    LET g == GCD(IF n < 0 THEN -n ELSE n, d)
    IN  <<n \div g, d \div g>>

RatAdd(a, b) == Rat(a[1] * b[2] + b[1] * a[2], a[2] * b[2])

RatMul(a, b) == Rat(a[1] * b[1], a[2] * b[2])

\* a / b for b > 0.
RatDiv(a, b) == Rat(a[1] * b[2], a[2] * b[1])

\* a >= b
RatGeq(a, b) == a[1] * b[2] >= b[1] * a[2]

RECURSIVE RatSum(_)
RatSum(xs) == IF xs = <<>> THEN <<0, 1>> ELSE RatAdd(Head(xs), RatSum(Tail(xs)))

\* The Program objects select_program builds (src/introduction.py): the
\* name, the minimum illuminance in lux and the area thresholds of one and
\* of two credits.  Retail has none: select_program returns None for it.
Program(name, min_threshold, credit_1_threshold, credit_2_threshold) ==
    [name               |-> name,
     min_threshold      |-> min_threshold,
     credit_1_threshold |-> credit_1_threshold,
     credit_2_threshold |-> credit_2_threshold]

ProgramGeneral == Program("General", 250, <<1, 2>>, <<3, 4>>)

ProgramResidential == Program("Residential", 200, <<1, 2>>, <<3, 4>>)

\* Mutant of ProgramSchool: the two area thresholds exchanged.
ProgramSchool_thresholds_exchanged == Program("School", 300, <<9, 10>>, <<3, 4>>)

ProgramSchool == Program("School", 300, <<3, 4>>, <<9, 10>>)

Programs == {ProgramGeneral, ProgramResidential, ProgramSchool}

\* estidama.SIM_TIMES as as_string() keys: the six timepoints, in the order
\* of the columns of the table.
SIM_TIMES == <<"9_21_10", "9_21_12", "9_21_14", "6_21_10", "6_21_12", "6_21_14">>

\* The number of rows of a result file that meet the threshold, as the loop
\* of percentage_complied counts them.
RECURSIVE count_true(_, _)
count_true(rows, threshold) ==
    IF rows = <<>>
    THEN 0
    ELSE (IF Head(rows) >= threshold THEN 1 ELSE 0) + count_true(Tail(rows), threshold)

\* Mutant of percentage_complied: an empty file scores zero instead of
\* raising.
percentage_complied_zero_when_empty(res, threshold) ==
    IF ~ res.exists
    THEN [error |-> "FileNotFoundError", value |-> <<0, 1>>]
    ELSE IF Len(res.rows) = 0
         THEN [error |-> "", value |-> <<0, 1>>]
         ELSE [error |-> "", value |-> Rat(count_true(res.rows, threshold), Len(res.rows))]

\* Mutant of percentage_complied: a missing file scores zero instead of
\* raising.
percentage_complied_zero_when_missing(res, threshold) ==
    IF ~ res.exists
    THEN [error |-> "", value |-> <<0, 1>>]
    ELSE IF Len(res.rows) = 0
         THEN [error |-> "ZeroDivisionError", value |-> <<0, 1>>]
         ELSE [error |-> "", value |-> Rat(count_true(res.rows, threshold), Len(res.rows))]

\* percentage_complied: the error it raises, or "" and the fraction.
percentage_complied(res, threshold) ==
    IF ~ res.exists
    THEN [error |-> "FileNotFoundError", value |-> <<0, 1>>]
    ELSE IF Len(res.rows) = 0
         THEN [error |-> "ZeroDivisionError", value |-> <<0, 1>>]
         ELSE [error |-> "", value |-> Rat(count_true(res.rows, threshold), Len(res.rows))]

\* Mutant of compliant_area_of: the fraction is taken as a percentage.
compliant_area_in_percent(floor_area, fraction) ==
    RatMul(<<floor_area * 100, 1>>, fraction)

\* compliant_area = room.floor_area * percentage_complied(...)
compliant_area_of(floor_area, fraction) == RatMul(<<floor_area, 1>>, fraction)

\* statistics.mean
mean(xs) == RatDiv(RatSum(xs), <<Len(xs), 1>>)

\* Mutant of credits_for: strict comparisons, a tie falls to the lower band.
credits_for_strictly_above(compliant_area_percentage, prog) ==
    IF ~ RatGeq(prog.credit_2_threshold, compliant_area_percentage)
    THEN 2
    ELSE IF ~ RatGeq(prog.credit_1_threshold, compliant_area_percentage)
         THEN 1
         ELSE 0

\* The ladder of result(): the credits the message announces.
credits_for(compliant_area_percentage, prog) ==
    IF RatGeq(compliant_area_percentage, prog.credit_2_threshold)
    THEN 2
    ELSE IF RatGeq(compliant_area_percentage, prog.credit_1_threshold)
         THEN 1
         ELSE 0

(***************************************************************************)
(* Inputs of scoring.                                                      *)
(***************************************************************************)
\* The rooms of the model: display name and floor area (square metres).
ModelRooms ==
    {[display_name |-> "office", floor_area |-> 10],
     [display_name |-> "hall", floor_area |-> 40]}

\* The lists of selected rooms: every list of distinct rooms of the model.
OccupiedRoomLists ==
    {rs \in SeqUpTo(ModelRooms, Cardinality(ModelRooms)) :
        \A i, j \in 1..Len(rs) : i # j => rs[i] # rs[j]}

ResFile(rows) == [exists |-> TRUE, rows |-> rows]

MissingFile == [exists |-> FALSE, rows |-> <<>>]

\* Result files: missing, empty, and two sensors with the first at 100 lux,
\* at the threshold of a program, or at 400 lux.
ResFileInputs ==
    {MissingFile, ResFile(<<>>), ResFile(<<100, 100>>), ResFile(<<200, 100>>),
     ResFile(<<250, 100>>), ResFile(<<300, 100>>), ResFile(<<400, 400>>)}

NoOutcome == [error |-> "", compliant_area_percentage |-> <<0, 1>>, credits |-> -1]

(***************************************************************************)
(* SpecScore: result(), one step per loop iteration of prepare_results.    *)
(*   pc = "rooms"  at the head of the loop over the rooms                  *)
(*   pc = "times"  inside a room, at the head of the loop over SIM_TIMES   *)
(*   pc = "done"   result() returned;  pc = "error"  an exception left it  *)
(***************************************************************************)
InitScore ==
    /\ shade = NoInput
    /\ tolerance = 1
    /\ width_check = Pending
    /\ aperture = NoInput
    /\ program \in Programs
    /\ window = Pending
    /\ room = NoInput
    /\ occupied_area = Pending
    /\ details = Pending
    /\ occupied_rooms \in OccupiedRoomLists
    /\ res_file = MissingFile
    /\ results = [i                  |-> 1,
                  names              |-> <<>>,
                  areas              |-> <<>>,
                  compliant_areas    |-> <<>>,
                  average            |-> <<>>,
                  total_area         |-> 0,
                  total_average_area |-> <<0, 1>>]
    /\ outcome = NoOutcome
    /\ session = NoInput
    /\ pc = "rooms"

evaluation == <<shade, tolerance, width_check, aperture, program, window,
                room, occupied_area, details>>

\* Lines 166-172: the room's name and area are recorded and its area added
\* to the total.
BeginRoom ==
    /\ pc = "rooms"
    /\ results.i <= Len(occupied_rooms)
    /\ results' = [results EXCEPT
                       !.names = Append(@, occupied_rooms[results.i].display_name),
                       !.areas = Append(@, occupied_rooms[results.i].floor_area),
                       !.total_area = @ + occupied_rooms[results.i].floor_area,
                       !.compliant_areas = <<>>]
    /\ pc' = "times"
    /\ UNCHANGED <<evaluation, session, occupied_rooms, res_file, outcome>>

\* Lines 174-180: one timepoint of the room.  The file read is whatever the
\* download left at the path.
ReadResult ==
    /\ pc = "times"
    /\ Len(results.compliant_areas) < Len(SIM_TIMES)
    /\ \E res \in ResFileInputs :
           LET got == percentage_complied(res, program.min_threshold)
           IN  /\ res_file' = res
               /\ IF got.error # ""
                  THEN /\ outcome' = [outcome EXCEPT !.error = got.error]
                       /\ pc' = "error"
                       /\ UNCHANGED results
                  ELSE /\ results' = [results EXCEPT !.compliant_areas =
                                         Append(@, compliant_area_of(
                                             occupied_rooms[results.i].floor_area,
                                             got.value))]
                       /\ UNCHANGED <<outcome, pc>>
    /\ UNCHANGED <<evaluation, session, occupied_rooms>>

\* Mutant of AverageRoom: the room is averaged as soon as one timepoint was
\* read.
AverageRoom_after_the_first_timepoint ==
    /\ pc = "times"
    /\ Len(results.compliant_areas) >= 1
    /\ LET average_compliant_area == mean(results.compliant_areas)
       IN  results' = [results EXCEPT
                           !.average = Append(@, average_compliant_area),
                           !.total_average_area = RatAdd(@, average_compliant_area),
                           !.i = @ + 1]
    /\ pc' = "rooms"
    /\ UNCHANGED <<evaluation, session, occupied_rooms, res_file, outcome>>

\* Lines 182-184: the room's average.
AverageRoom ==
    /\ pc = "times"
    /\ Len(results.compliant_areas) = Len(SIM_TIMES)
    /\ LET average_compliant_area == mean(results.compliant_areas)
       IN  results' = [results EXCEPT
                           !.average = Append(@, average_compliant_area),
                           !.total_average_area = RatAdd(@, average_compliant_area),
                           !.i = @ + 1]
    /\ pc' = "rooms"
    /\ UNCHANGED <<evaluation, session, occupied_rooms, res_file, outcome>>

\* Lines 185-216 and 224-246: the total row, the percentage and the credits.
FinishResult ==
    /\ pc = "rooms"
    /\ results.i = Len(occupied_rooms) + 1
    /\ IF results.total_area = 0
       THEN /\ outcome' = [outcome EXCEPT !.error = "ZeroDivisionError"]
            /\ pc' = "error"
       ELSE LET compliant_area_percentage ==
                    RatDiv(results.total_average_area, <<results.total_area, 1>>)
            IN  /\ outcome' = [error |-> "",
                               compliant_area_percentage |-> compliant_area_percentage,
                               credits |-> credits_for(compliant_area_percentage, program)]
                /\ pc' = "done"
    /\ UNCHANGED <<evaluation, session, occupied_rooms, res_file, results>>

NextScore == BeginRoom \/ ReadResult \/ AverageRoom \/ FinishResult

SpecScore == InitScore /\ [][NextScore]_vars

(***************************************************************************)
(* The session.  The app is a script that runs top to bottom at every      *)
(* interaction of the user (Streamlit): introduction(), select(),          *)
(* validate(), sensor_grids(), simulation(), visualization(), result().    *)
(* The widgets keep their values between two runs, a button is true in     *)
(* the one run its click starts, and st.session_state and the caches of    *)
(* st.cache outlive the run.  The script that chains the tabs is not in    *)
(* the sources; main below follows the specification's state machine.      *)
(***************************************************************************)

\* A local variable of a function: the value is computed once, at the
\* assignment, and every later statement reads that value.
assign(value, rest(_)) == CHOOSE r \in {rest(v) : v \in {value}} : TRUE

\* str.lower() on the display names of the model.
lower(name) ==
    CASE name = "Office" -> "office"
      [] name = "Hall"   -> "hall"
      [] name = "Lobby"  -> "lobby"
      [] OTHER           -> name

\* hb_model.rooms of the uploaded model: the office has one window, the hall
\* two on one face, the first of them with a curtain that fails the check.
HBModelRooms ==
    << [display_name |-> "Office", floor_area |-> 10, exterior_aperture_area |-> 25000,
        faces |-> << <<Aperture("finned", <<Rect("fin", 500, 150)>>, <<>>)>> >>],
       [display_name |-> "Hall", floor_area |-> 40, exterior_aperture_area |-> 25000,
        faces |-> << <<Aperture("curtained", <<>>,
                               <<Rect("blind", 300, 150), Rect("curtain", 500, 150)>>),
                       Aperture("shaded", <<Rect("fin", 500, 150)>>, <<>>)>> >>] >>

\* get_room_dict: the rooms by lower-cased display name; of two rooms with
\* the same key the dict comprehension keeps the last.
get_room_dict(hb_model) ==
    [k \in {lower(hb_model[i].display_name) : i \in 1..Len(hb_model)} |->
        hb_model[CHOOSE i \in 1..Len(hb_model) :
                     /\ lower(hb_model[i].display_name) = k
                     /\ \A j \in 1..Len(hb_model) :
                            lower(hb_model[j].display_name) = k => j <= i]]

\* What select_program returns for Retail: None.
NoneProgram == [none |-> TRUE]

\* Mutant of select_program: Retail only warned about, as in the revision
\* of src/estidama.py, and a program returned.
select_program_warning_only(name) ==
    IF name = "General" THEN ProgramGeneral
    ELSE IF name = "Retail" THEN Program("Retail", 250, <<1, 2>>, <<3, 4>>)
    ELSE IF name = "Residential" THEN ProgramResidential
    ELSE ProgramSchool

\* introduction.select_program: the Program of the radio's value.
select_program(name) ==
    IF name = "General" THEN ProgramGeneral
    ELSE IF name = "Retail" THEN NoneProgram
    ELSE IF name = "Residential" THEN ProgramResidential
    ELSE ProgramSchool

\* introduction(): (None, None) without a program or for a model without
\* rooms, otherwise the program and the uploaded model (None before the
\* upload).  A model is the list of its rooms.
introduction(name, uploaded) ==
    LET selected == select_program(name)
    IN  IF selected = NoneProgram
        THEN [program |-> NoneProgram, hb_model |-> None]
        ELSE IF uploaded /\ Len(HBModelRooms) = 0
             THEN [program |-> NoneProgram, hb_model |-> None]
             ELSE [program |-> selected,
                   hb_model |-> IF uploaded THEN HBModelRooms ELSE None]

\* What st.cache hashes of a room_dict: its keys and, by hash_room, the
\* name and the number of faces of every room (volumes are not modelled).
hash_room_dict(room_dict) ==
    {[key   |-> k,
      name  |-> room_dict[k].display_name,
      faces |-> Len(room_dict[k].faces)] : k \in DOMAIN room_dict}

\* set_session_state_vals under st.cache(max_entries=1): the body runs, and
\* resets the two lists, only when the room_dict is not the cached one.
\* s.vals_cache is the one entry of the cache of the function, which belongs
\* to the server and not to the session.
set_session_state_vals(s, room_dict) ==
    IF hash_room_dict(room_dict) \in s.vals_cache
    THEN s
    ELSE [s EXCEPT !.occupied_areas = <<>>,
                   !.unique_occupied_areas = <<>>,
                   !.vals_cache = {hash_room_dict(room_dict)}]

\* Mutant of list_set: the list kept as it is, duplicates included.
list_set_keeping_duplicates(names, order) == names

\* list(set(names)): every name once, in the order the set iterates, which
\* is the order of the hashes in this process.
list_set(names, order) ==
    SelectSeq(order, LAMBDA n : \E i \in 1..Len(names) : names[i] = n)

\* Mutant of select: the staged areas added at every run, the button
\* clicked or not.
select_adding_without_click(s, hb_model, add_areas, clear_areas) ==
    LET room_dict == get_room_dict(hb_model)
        s1        == set_session_state_vals(s, room_dict)
        added     == s1.occupied_areas \o s.staged
        s2        == [s1 EXCEPT
                         !.occupied_areas = IF clear_areas THEN <<>> ELSE added,
                         !.unique_occupied_areas =
                             IF clear_areas THEN <<>> ELSE list_set(added, s.hash_order)]
    IN  IF \A i \in 1..Len(s2.unique_occupied_areas) :
               s2.unique_occupied_areas[i] \in DOMAIN room_dict
        THEN [session |-> s2,
              error   |-> "",
              rooms   |-> [i \in 1..Len(s2.unique_occupied_areas) |->
                              room_dict[s2.unique_occupied_areas[i]]]]
        ELSE [session |-> s2, error |-> "KeyError", rooms |-> <<>>]

\* occupied_area.select: s.staged is staged_areas, what the search box and
\* the multiselect hold.  The lookup of a name that is no key of room_dict
\* raises KeyError.
select(s, hb_model, add_areas, clear_areas) ==
    LET room_dict == get_room_dict(hb_model)
        s1        == set_session_state_vals(s, room_dict)
        added     == IF add_areas THEN s1.occupied_areas \o s.staged
                                  ELSE s1.occupied_areas
        s2        == [s1 EXCEPT
                         !.occupied_areas = IF clear_areas THEN <<>> ELSE added,
                         !.unique_occupied_areas =
                             IF clear_areas THEN <<>> ELSE list_set(added, s.hash_order)]
    IN  IF \A i \in 1..Len(s2.unique_occupied_areas) :
               s2.unique_occupied_areas[i] \in DOMAIN room_dict
        THEN [session |-> s2,
              error   |-> "",
              rooms   |-> [i \in 1..Len(s2.unique_occupied_areas) |->
                              room_dict[s2.unique_occupied_areas[i]]]]
        ELSE [session |-> s2, error |-> "KeyError", rooms |-> <<>>]

\* Mutant of validate: the loop over the rooms ends at the first room whose
\* evaluation left a warning.
validate_until_the_first_warning(rooms, prog, tol, checked) ==
    IF checked /\ rooms # <<>>
    THEN LET rows == [i \in 1..Len(rooms) |->
                         LET area == OccupiedArea(rooms[i], prog.name, tol)
                         IN  [Name     |-> area.name,
                              Windows  |-> area.has_windows,
                              Shades   |-> area.has_shades,
                              Warnings |-> Len(area.warnings),
                              details  |-> occupied_area_to_dict(area)]]
             stops == {i \in 1..Len(rows) : rows[i].Warnings > 0}
         IN  IF stops = {}
             THEN rows
             ELSE SubSeq(rows, 1, (CHOOSE i \in stops : \A j \in stops : i <= j) - 1)
    ELSE <<>>

\* occupied_area.validate: with the checkbox ticked and rooms selected, the
\* row of the table and the details of every room; nothing otherwise.
validate(rooms, prog, tol, checked) ==
    IF checked /\ rooms # <<>>
    THEN [i \in 1..Len(rooms) |->
             LET area == OccupiedArea(rooms[i], prog.name, tol)
             IN  [Name     |-> area.name,
                  Windows  |-> area.has_windows,
                  Shades   |-> area.has_shades,
                  Warnings |-> Len(area.warnings),
                  details  |-> occupied_area_to_dict(area)]]
    ELSE <<>>

\* write_hbjson_with_grids: the model with one grid per selected room, the
\* grid named as generate_room_grid names it.  The file is the list of its
\* grids: st.cache returns the same file for the same rooms.
write_hbjson_with_grids(hb_model, rooms) ==
    [i \in 1..Len(rooms) |-> "grid_" \o rooms[i].display_name]

\* model.sensor_grids: None unless the checkbox is ticked and rooms are
\* selected.
sensor_grids(hb_model, rooms, add_grids) ==
    IF add_grids /\ rooms # <<>>
    THEN write_hbjson_with_grids(hb_model, rooms)
    ELSE None

\* PointInTime and its as_string(): "{month}_{day}_{hour}".
PointInTime(month, day, hour) == [month |-> month, day |-> day, hour |-> hour]

as_string(point) ==
    ToString(point.month) \o "_" \o ToString(point.day) \o "_" \o ToString(point.hour)

\* Mutant of times: the equinox runs set in March.
times_of_the_march_equinox ==
    <<PointInTime(6, 21, 10), PointInTime(6, 21, 12), PointInTime(6, 21, 14),
      PointInTime(3, 21, 14), PointInTime(3, 21, 12), PointInTime(3, 21, 10)>>

\* simulation.create_job: the six points in time, in the order of the code.
times ==
    <<PointInTime(6, 21, 10), PointInTime(6, 21, 12), PointInTime(6, 21, 14),
      PointInTime(9, 21, 14), PointInTime(9, 21, 12), PointInTime(9, 21, 10)>>

\* No job: simulation() returned (None, None) and none is kept.
NoJob == [status |-> "none", hbjson |-> <<>>, month_day_hour |-> <<>>, lux |-> <<>>]

\* simulation.create_job and job.create(): one run per point in time, run i
\* carrying the argument month_day_hour[i].  lux[g] will hold the rows of the
\* result file of grid g, the same in every run.
create_job(hbjson_path) ==
    [status         |-> "created",
     hbjson         |-> hbjson_path,
     month_day_hour |-> [i \in 1..Len(times) |-> as_string(times[i])],
     lux            |-> <<>>]

\* The test of simulation() on the form: Python's all() over the three texts
\* and the two numbers, of which the empty text and zero are false.
all_fields(api_key, owner, project, latitude, longitude) ==
    /\ api_key # ""
    /\ owner # ""
    /\ project # ""
    /\ latitude # 0
    /\ longitude # 0

\* simulation(): a job only in the run the Submit button starts, and only
\* with every field filled.
simulation(hbjson_path, submit, filled) ==
    IF submit /\ filled THEN create_job(hbjson_path) ELSE NoJob

\* Mutant of request_status: a cancelled job taken for a complete one.
request_status_cancelled_as_complete(job) ==
    IF job.status \in {"pre_processing", "running", "created", "unknown"}
    THEN "INCOMPLETE"
    ELSE IF job.status = "failed" THEN "FAILED"
    ELSE "COMPLETE"

\* visualization.request_status
request_status(job) ==
    IF job.status \in {"pre_processing", "running", "created", "unknown"}
    THEN "INCOMPLETE"
    ELSE IF job.status = "failed" THEN "FAILED"
    ELSE IF job.status = "cancelled" THEN "CANCELLED"
    ELSE "COMPLETE"

\* The keys visualization() looks up in sim_dict, in the order of the code.
VizKeys == <<"9_21_10", "9_21_12", "9_21_14", "6_21_10", "6_21_12", "6_21_14">>

\* generate_dicts: sim_dict = dict(zip(sim_times, sim_ids)); of two runs
\* with the same key the last stays.  The run ids are the indexes.
has_key(job, key) == \E i \in 1..Len(job.month_day_hour) : job.month_day_hour[i] = key

sim_dict(job, key) ==
    CHOOSE i \in 1..Len(job.month_day_hour) :
        /\ job.month_day_hour[i] = key
        /\ \A j \in 1..Len(job.month_day_hour) : job.month_day_hour[j] = key => j <= i

\* res_file_dict[sim_id].joinpath(file_name): the downloaded folder of a run
\* holds one .res file per grid of the submitted model.
res_file_path(job, sim_id, file_name) ==
    IF \E g \in DOMAIN job.lux : job.hbjson[g] \o ".res" = file_name
    THEN ResFile(job.lux[CHOOSE g \in 1..Len(job.hbjson) :
                             job.hbjson[g] \o ".res" = file_name])
    ELSE MissingFile

\* visualization(): the dicts only for a complete job; a key missing from
\* sim_dict raises KeyError.
visualization(job) ==
    IF request_status(job) # "COMPLETE"
    THEN [downloaded |-> FALSE, error |-> ""]
    ELSE IF \E k \in 1..Len(VizKeys) : ~ has_key(job, VizKeys[k])
         THEN [downloaded |-> FALSE, error |-> "KeyError"]
         ELSE [downloaded |-> TRUE, error |-> ""]

\* The loop of prepare_results over SIM_TIMES for one room, from timepoint k
\* on: the compliant areas, or the error that ends the run.
RECURSIVE compliant_areas(_, _, _, _)
compliant_areas(rm, prog, job, k) ==
    IF k > Len(SIM_TIMES)
    THEN [error |-> "", values |-> <<>>]
    ELSE IF ~ has_key(job, SIM_TIMES[k])
         THEN [error |-> "KeyError", values |-> <<>>]
         ELSE LET file_name == "grid_" \o rm.display_name \o ".res"
              IN  assign(percentage_complied(
                             res_file_path(job, sim_dict(job, SIM_TIMES[k]), file_name),
                             prog.min_threshold),
                         LAMBDA got :
                  IF got.error # ""
                  THEN [error |-> got.error, values |-> <<>>]
                  ELSE assign(compliant_areas(rm, prog, job, k + 1),
                              LAMBDA rest :
                       [error  |-> rest.error,
                        values |-> <<compliant_area_of(rm.floor_area, got.value)>>
                                       \o rest.values]))

\* The loop of prepare_results over the rooms, from room i on: the averages.
RECURSIVE averages(_, _, _, _)
averages(rooms, prog, job, i) ==
    IF i > Len(rooms)
    THEN [error |-> "", values |-> <<>>]
    ELSE assign(compliant_areas(rooms[i], prog, job, 1),
                LAMBDA areas :
         IF areas.error # ""
         THEN [error |-> areas.error, values |-> <<>>]
         ELSE assign(averages(rooms, prog, job, i + 1),
                     LAMBDA rest :
              [error  |-> rest.error,
               values |-> <<mean(areas.values)>> \o rest.values]))

\* result(): prepare_results and the ladder, in one piece.
result(prog, rooms, job) ==
    assign(averages(rooms, prog, job, 1),
           LAMBDA average :
    assign(RatSum([i \in 1..Len(rooms) |-> <<rooms[i].floor_area, 1>>]),
           LAMBDA total_area :
    IF average.error # ""
    THEN [NoOutcome EXCEPT !.error = average.error]
    ELSE IF total_area[1] = 0
         THEN [NoOutcome EXCEPT !.error = "ZeroDivisionError"]
         ELSE assign(RatDiv(RatSum(average.values), total_area),
                     LAMBDA compliant_area_percentage :
              [error |-> "",
               compliant_area_percentage |-> compliant_area_percentage,
               credits |-> credits_for(compliant_area_percentage, prog)])))

\* Mutant of kept_job: the submitted job kept whatever model it was
\* submitted for.
kept_job_whatever_the_model(job, hbjson_path) == job

\* The job the session keeps from one run to the next (the job URL and the
\* API client): kept only while the model with grids it was submitted for is
\* the one sensor_grids returns; with it go the downloaded results.
kept_job(job, hbjson_path) ==
    IF job.status # "none" /\ job.hbjson = hbjson_path THEN job ELSE NoJob

\* The script, run once.  s is the session before the run; name is the value
\* of the program radio; add_areas, clear_areas and submit are the buttons;
\* filled tells whether the fields of the simulation form are all filled.
\* The run ends after introduction() when that returns no model; every later
\* step runs only on what the step before it returned.  The field ran holds
\* the steps that ran, rule_evaluated whether validate() has evaluated the
\* rooms since the selection last changed.
main(s, name, tol, add_areas, clear_areas, submit, filled) ==
    assign(introduction(name, s.uploaded),
           LAMBDA intro :
        IF intro.hb_model = None
        THEN [session        |-> [s EXCEPT !.ran = {}, !.evaluated = <<>>, !.hbjson = None],
              occupied_rooms |-> <<>>,
              outcome        |-> NoOutcome]
        ELSE assign(select(s, intro.hb_model, add_areas, clear_areas),
                    LAMBDA sel :
             assign(sel.rooms,
                    LAMBDA rooms :
             assign(validate(rooms, intro.program, tol, s.validate),
                    LAMBDA evaluated :
             assign(sensor_grids(intro.hb_model, rooms, s.add_grids),
                    LAMBDA hbjson :
             assign(kept_job(s.job, hbjson),
                    LAMBDA kept :
             assign(IF hbjson # None THEN simulation(hbjson, submit, filled) ELSE NoJob,
                    LAMBDA submitted :
             assign(IF submitted.status # "none" THEN submitted ELSE kept,
                    LAMBDA job :
             assign(IF job.status # "none"
                    THEN visualization(job)
                    ELSE [downloaded |-> FALSE, error |-> ""],
                    LAMBDA viz :
             assign(IF viz.downloaded
                    THEN result(intro.program, rooms, job)
                    ELSE [NoOutcome EXCEPT !.error = viz.error],
                    LAMBDA score :
             LET ran == {"select"}
                                  \cup (IF evaluated # <<>> THEN {"validate"} ELSE {})
                                  \cup (IF hbjson # None THEN {"grids"} ELSE {})
                                  \cup (IF submitted.status # "none" THEN {"submit"} ELSE {})
                                  \cup (IF s.job.status # "none" /\ kept.status = "none"
                                        THEN {"invalidate"} ELSE {})
                                  \cup (IF viz.downloaded THEN {"download"} ELSE {})
                                  \cup (IF viz.downloaded /\ score.error = ""
                                        THEN {"score"} ELSE {})
             IN  [session |->
                      [sel.session EXCEPT
                           !.job = job,
                           !.ran = ran,
                           !.evaluated = evaluated,
                           !.hbjson = hbjson,
                           !.rule_evaluated =
                               \/ evaluated # <<>>
                               \/ /\ s.rule_evaluated
                                  /\ sel.session.unique_occupied_areas
                                         = s.unique_occupied_areas],
                  occupied_rooms |-> rooms,
                  outcome        |-> score]))))))))))

(***************************************************************************)
(* Inputs of the session.                                                  *)
(***************************************************************************)
\* What the search box and the multiselect can stage together.
StagedInputs == {<<>>, <<"office">>, <<"hall">>}

\* The orders in which a set of the two names can iterate.
HashOrders == {<<"office", "hall">>, <<"hall", "office">>}

\* The longest list of occupied areas the model lets the session accumulate.
MaxOccupiedAreas == 2

\* Result files of a grid: no sensor above every threshold, or all of them.
LuxInputs == {<<100, 100>>, <<400, 400>>}

(***************************************************************************)
(* SpecSession: one session of the app.                                    *)
(***************************************************************************)
InitSession ==
    /\ shade = NoInput
    /\ tolerance = 1
    /\ width_check = Pending
    /\ aperture = NoInput
    /\ program = "General"
    /\ window = Pending
    /\ room = NoInput
    /\ occupied_area = Pending
    /\ details = Pending
    /\ occupied_rooms = <<>>
    /\ res_file = NoInput
    /\ results = Pending
    /\ outcome = NoOutcome
    /\ \E order \in HashOrders :
           session = [uploaded              |-> FALSE,
                      staged                |-> <<>>,
                      occupied_areas        |-> <<>>,
                      unique_occupied_areas |-> <<>>,
                      vals_cache            |-> {},
                      hash_order            |-> order,
                      validate              |-> FALSE,
                      add_grids             |-> FALSE,
                      rule_evaluated        |-> FALSE,
                      job                   |-> NoJob,
                      ran                   |-> {},
                      evaluated             |-> <<>>,
                      hbjson                |-> None]
    /\ pc = "session"

\* One run of the script and what it leaves.
Run(s, name, add_areas, clear_areas, submit, filled) ==
    \E out \in {main(s, name, tolerance, add_areas, clear_areas, submit, filled)} :
        /\ program' = name
        /\ session' = out.session
        /\ occupied_rooms' = out.occupied_rooms
        /\ outcome' = out.outcome
        /\ UNCHANGED <<shade, tolerance, width_check, aperture, window, room,
                       occupied_area, details, res_file, results, pc>>

\* The user picks a program on the radio.
ChooseProgram ==
    /\ pc = "session"
    /\ \E name \in ProgramValues :
           /\ name # program
           /\ Run(session, name, FALSE, FALSE, FALSE, FALSE)

\* The model arrives from get_hbjson.
UploadModel ==
    /\ pc = "session"
    /\ ~ session.uploaded
    /\ select_program(program) # NoneProgram
    /\ Run([session EXCEPT !.uploaded = TRUE], program, FALSE, FALSE, FALSE, FALSE)

\* The user types in the search box or picks in the multiselect.
StageAreas ==
    /\ pc = "session"
    /\ "select" \in session.ran
    /\ \E staged \in StagedInputs :
           /\ staged # session.staged
           /\ Run([session EXCEPT !.staged = staged], program, FALSE, FALSE, FALSE, FALSE)

\* 'Add to occupied areas'
AddAreas ==
    /\ pc = "session"
    /\ "select" \in session.ran
    /\ Len(session.occupied_areas) + Len(session.staged) <= MaxOccupiedAreas
    /\ Run(session, program, TRUE, FALSE, FALSE, FALSE)

\* 'Clear occupied areas'
ClearAreas ==
    /\ pc = "session"
    /\ "select" \in session.ran
    /\ Run(session, program, FALSE, TRUE, FALSE, FALSE)

\* The 'Validate' checkbox.
ToggleValidate ==
    /\ pc = "session"
    /\ "select" \in session.ran
    /\ Run([session EXCEPT !.validate = ~ @], program, FALSE, FALSE, FALSE, FALSE)

\* The 'Add grids' checkbox.
ToggleAddGrids ==
    /\ pc = "session"
    /\ "select" \in session.ran
    /\ Run([session EXCEPT !.add_grids = ~ @], program, FALSE, FALSE, FALSE, FALSE)

\* 'Submit', with the form filled or not.
Submit ==
    /\ pc = "session"
    /\ "grids" \in session.ran
    /\ \E filled \in BOOLEAN : Run(session, program, FALSE, FALSE, TRUE, filled)

\* Any interaction that changes no widget, 'Refresh to download results'
\* among them.
Refresh ==
    /\ pc = "session"
    /\ Run(session, program, FALSE, FALSE, FALSE, FALSE)

\* Pollination starts the job.
JobStarts ==
    /\ pc = "session"
    /\ session.job.status = "created"
    /\ session' = [session EXCEPT !.job.status = "running"]
    /\ UNCHANGED <<evaluation, scoring, pc>>

\* Pollination ends the job: failed, or complete with a result file per
\* grid in every run.
JobEnds ==
    /\ pc = "session"
    /\ session.job.status = "running"
    /\ \/ session' = [session EXCEPT !.job.status = "failed"]
       \/ \E lux \in [1..Len(session.job.hbjson) -> LuxInputs] :
              session' = [session EXCEPT !.job.status = "completed", !.job.lux = lux]
    /\ UNCHANGED <<evaluation, scoring, pc>>

NextSession ==
    \/ ChooseProgram
    \/ UploadModel
    \/ StageAreas
    \/ AddAreas
    \/ ClearAreas
    \/ ToggleValidate
    \/ ToggleAddGrids
    \/ Submit
    \/ Refresh
    \/ JobStarts
    \/ JobEnds

SpecSession == InitSession /\ [][NextSession]_vars

(***************************************************************************)
(* SpecSelect: select() in one session of a server that serves others.     *)
(* The user uploads one model after another; the cache of st.cache is kept *)
(* by the server for the function, so the run of another session on its    *)
(* own model replaces the entry this session left.                         *)
(*   pc = "select"  select() returned;  pc = "error"  the lookup raised    *)
(***************************************************************************)
\* A second model: a hall with two faces and a lobby.
HBModelAnnex ==
    << [display_name |-> "Hall", floor_area |-> 40, exterior_aperture_area |-> 25000,
        faces |-> << <<Aperture("finned", <<Rect("fin", 500, 150)>>, <<>>)>>, <<>> >>],
       [display_name |-> "Lobby", floor_area |-> 10, exterior_aperture_area |-> 0,
        faces |-> << <<>> >>] >>

HBModels == {HBModelRooms, HBModelAnnex}

\* What the search box and the multiselect can stage from the keys of the
\* room_dict of the model.
StagedFor(hb_model) ==
    {staged \in StagedInputs \cup {<<"lobby">>} :
        \A i \in 1..Len(staged) : staged[i] \in DOMAIN get_room_dict(hb_model)}

\* The orders in which a set of the three names can iterate.
AnnexHashOrders == {<<"office", "hall", "lobby">>, <<"lobby", "hall", "office">>}

InitSelect ==
    /\ shade = NoInput
    /\ tolerance = 1
    /\ width_check = Pending
    /\ aperture = NoInput
    /\ program = "General"
    /\ window = Pending
    /\ room = NoInput
    /\ occupied_area = Pending
    /\ details = Pending
    /\ occupied_rooms = <<>>
    /\ res_file = NoInput
    /\ results = Pending
    /\ outcome = NoOutcome
    /\ \E order \in AnnexHashOrders :
           session = [hb_model              |-> None,
                      staged                |-> <<>>,
                      occupied_areas        |-> <<>>,
                      unique_occupied_areas |-> <<>>,
                      vals_cache            |-> {},
                      hash_order            |-> order]
    /\ pc = "select"

\* One run of select() on the uploaded model and what it leaves.
SelectRun(s, add_areas, clear_areas) ==
    \E out \in {select(s, s.hb_model, add_areas, clear_areas)} :
        /\ session' = out.session
        /\ occupied_rooms' = out.rooms
        /\ outcome' = [NoOutcome EXCEPT !.error = out.error]
        /\ pc' = IF out.error = "" THEN "select" ELSE "error"
        /\ UNCHANGED <<evaluation, res_file, results>>

\* The user uploads a model; the multiselect starts empty on the new
\* options and the search box searches the new keys.
UploadAnyModel ==
    /\ pc = "select"
    /\ \E hb_model \in HBModels :
           /\ hb_model # session.hb_model
           /\ \E staged \in StagedFor(hb_model) :
                  SelectRun([session EXCEPT !.hb_model = hb_model, !.staged = staged],
                            FALSE, FALSE)

\* The user types in the search box or picks in the multiselect.
StageAnyAreas ==
    /\ pc = "select"
    /\ session.hb_model # None
    /\ \E staged \in StagedFor(session.hb_model) :
           /\ staged # session.staged
           /\ SelectRun([session EXCEPT !.staged = staged], FALSE, FALSE)

\* 'Add to occupied areas'
AddStagedAreas ==
    /\ pc = "select"
    /\ session.hb_model # None
    /\ Len(session.occupied_areas) + Len(session.staged) <= MaxOccupiedAreas
    /\ SelectRun(session, TRUE, FALSE)

\* 'Clear occupied areas'
ClearOccupiedAreas ==
    /\ pc = "select"
    /\ session.hb_model # None
    /\ SelectRun(session, FALSE, TRUE)

\* Another session of the server runs select() on its model: the call of
\* set_session_state_vals leaves the room_dict of that model as the one
\* entry of the cache, and resets the lists of that session only.
OtherSessionSelects ==
    /\ pc = "select"
    /\ \E hb_model \in HBModels :
           /\ session.vals_cache # {hash_room_dict(get_room_dict(hb_model))}
           /\ session' = [session EXCEPT
                              !.vals_cache = {hash_room_dict(get_room_dict(hb_model))}]
    /\ UNCHANGED <<evaluation, scoring, pc>>

NextSelect ==
    \/ UploadAnyModel
    \/ StageAnyAreas
    \/ AddStagedAreas
    \/ ClearOccupiedAreas
    \/ OtherSessionSelects

SpecSelect == InitSelect /\ [][NextSelect]_vars

(***************************************************************************)
(* SpecJob: the simulation form, the job on Pollination, visualization()   *)
(* and result() on the job.                                                *)
(*   pc = "form"    no job yet: the form is filled and submitted           *)
(*   pc = "job"     a job was created; visualization() looks at it         *)
(*   pc = "viewed"  visualization() returned the dicts of the job          *)
(*   pc = "done"    result() returned;  pc = "error"  an exception left it *)
(***************************************************************************)
\* Texts of a field of the form: left empty or filled.
TextInputs == {"", "filled"}

\* Latitudes and longitudes of the form: zero, or the default of the field
\* (in whole degrees).
LatitudeInputs == {0, 24}

LongitudeInputs == {0, 54}

\* The selections the model with grids is written for.
GridRoomLists == {<<HBModelRooms[1]>>, <<HBModelRooms[2], HBModelRooms[1]>>}

\* The statuses Pollination can give a job after a status.
NextStatuses(status) ==
    CASE status = "created"        -> {"pre_processing", "cancelled", "unknown"}
      [] status = "pre_processing" -> {"running", "failed", "cancelled", "unknown"}
      [] status = "running"        -> {"completed", "failed", "cancelled", "unknown"}
      [] status = "unknown"        -> {"running", "completed", "failed"}
      [] OTHER                     -> {}

\* What visualization() has not returned yet.
NotViewed == [status_seen |-> "", sim_status |-> "", downloaded |-> FALSE, error |-> ""]

InitJob ==
    /\ shade = NoInput
    /\ tolerance = 1
    /\ width_check = Pending
    /\ aperture = NoInput
    /\ program \in Programs
    /\ window = Pending
    /\ room = NoInput
    /\ occupied_area = Pending
    /\ details = Pending
    /\ occupied_rooms \in GridRoomLists
    /\ res_file = NoInput
    /\ results = Pending
    /\ outcome = NoOutcome
    /\ session = [api_key     |-> "",
                  owner       |-> "",
                  project     |-> "",
                  latitude    |-> 24,
                  longitude   |-> 54,
                  submit      |-> FALSE,
                  error_shown |-> FALSE,
                  hbjson      |-> write_hbjson_with_grids(HBModelRooms, occupied_rooms),
                  job         |-> NoJob,
                  viz         |-> NotViewed]
    /\ pc = "form"

\* simulation() in a run of the script: the fields as the user left them,
\* the Submit button clicked or not.
SubmitForm ==
    /\ pc = "form"
    /\ \E api_key, owner, project \in TextInputs, latitude \in LatitudeInputs,
          longitude \in LongitudeInputs, submit \in BOOLEAN :
           \E job \in {simulation(session.hbjson, submit,
                                  all_fields(api_key, owner, project, latitude, longitude))} :
               /\ session' = [session EXCEPT
                                  !.api_key = api_key,
                                  !.owner = owner,
                                  !.project = project,
                                  !.latitude = latitude,
                                  !.longitude = longitude,
                                  !.submit = submit,
                                  !.error_shown = submit /\ job.status = "none",
                                  !.job = job]
               /\ pc' = IF job.status = "none" THEN "form" ELSE "job"
    /\ UNCHANGED <<evaluation, scoring>>

\* Pollination moves the job on; a completed job has a result file per grid
\* in every run.
JobChanges ==
    /\ pc = "job"
    /\ \E status \in NextStatuses(session.job.status) :
           IF status = "completed"
           THEN \E lux \in [1..Len(session.job.hbjson) -> LuxInputs] :
                    session' = [session EXCEPT !.job.status = status, !.job.lux = lux]
           ELSE session' = [session EXCEPT !.job.status = status]
    /\ UNCHANGED <<evaluation, scoring, pc>>

\* visualization() in a run of the script.
Visualize ==
    /\ pc = "job"
    /\ \E viz \in {visualization(session.job)} :
           /\ session' = [session EXCEPT
                              !.viz = [status_seen |-> session.job.status,
                                       sim_status  |-> request_status(session.job),
                                       downloaded  |-> viz.downloaded,
                                       error       |-> viz.error]]
           /\ pc' = IF viz.error # "" THEN "error"
                    ELSE IF viz.downloaded THEN "viewed" ELSE "job"
    /\ UNCHANGED <<evaluation, scoring>>

\* result() on the dicts visualization() returned.
ScoreJob ==
    /\ pc = "viewed"
    /\ \E score \in {result(program, occupied_rooms, session.job)} :
           /\ outcome' = score
           /\ pc' = IF score.error # "" THEN "error" ELSE "done"
    /\ UNCHANGED <<evaluation, occupied_rooms, res_file, results, session>>

NextJob == SubmitForm \/ JobChanges \/ Visualize \/ ScoreJob

SpecJob == InitJob /\ [][NextJob]_vars

(***************************************************************************)
(* Properties of OccupiedArea (SpecRoom).                                  *)
(***************************************************************************)

\* C1: has_shades of an OccupiedArea is true only if at least one Window was
\* evaluated for the room and every evaluated Window has has_shades true; it
\* is never true over an empty set of windows.
C1_ShadedOnlyWithShadedWindows ==
    (pc = "done" /\ occupied_area.has_shades) =>
        /\ Len(occupied_area.windows_created) >= 1
        /\ \A i \in 1..Len(occupied_area.windows_created) :
               occupied_area.windows_created[i].has_shades

\* C2: a room whose exterior_aperture_area is 0 evaluates to has_windows =
\* false, has_shades = false and no warnings, and no Window is created for
\* it, whatever apertures and shades its faces hold.
C2_ZeroAreaRoomIsNotTraversed ==
    (pc = "done" /\ room.exterior_aperture_area = 0) =>
        /\ occupied_area.has_windows = FALSE
        /\ occupied_area.has_shades = FALSE
        /\ occupied_area.warnings = <<>>
        /\ occupied_area.windows = <<>>
        /\ occupied_area.windows_created = <<>>

\* A School room with area 0 whose faces hold a curtained aperture (which
\* would carry warnings if it were visited) has been evaluated.
C2_Witness ==
    /\ pc = "done"
    /\ room.exterior_aperture_area = 0
    /\ program = "School"
    /\ Len(room.faces) = 2
    /\ \E i \in 1..Len(room.faces) : \E j \in 1..Len(room.faces[i]) :
           room.faces[i][j].display_name = "curtained"
    /\ occupied_area.has_windows = FALSE

(***************************************************************************)
(* Properties of Window (SpecWindow).                                      *)
(***************************************************************************)

\* C3: has_external_shades is true exactly when the aperture has at least
\* one outdoor shade, whatever the shade's geometry (a 5 m fin, which fails
\* the width check, counts and leaves no warning), and has_shades equals
\* has_external_shades OR has_internal_shades.
C3_ExternalShadesByPresence ==
    pc = "done" =>
        /\ window.has_external_shades = (Len(aperture.outdoor_shades) >= 1)
        /\ window.has_shades =
               (window.has_external_shades \/ window.has_internal_shades)
        /\ \A i \in 1..Len(aperture.outdoor_shades) :
               /\ check_shade_width(aperture.outdoor_shades[i], tolerance)[1] = FALSE
               /\ \A j \in 1..Len(window.warnings) :
                      window.warnings[j] # "Shade fin is wider than 4 meters."
        /\ (Len(aperture.outdoor_shades) = 1 /\ aperture.indoor_shades = <<>>) =>
               /\ window.has_external_shades = TRUE
               /\ window.has_internal_shades = FALSE
               /\ window.has_shades = TRUE
               /\ window.warnings = <<>>

\* A Window for an aperture with one outdoor shade and no indoor shade.
C3_Witness ==
    /\ pc = "done"
    /\ Len(aperture.outdoor_shades) = 1
    /\ aperture.indoor_shades = <<>>
    /\ window.has_shades = TRUE

\* One width warning per indoor shade that fails check_shade_width, in list
\* order.
RECURSIVE FailingShadeWarnings(_, _)
FailingShadeWarnings(shades, tol) ==
    IF shades = <<>>
    THEN <<>>
    ELSE (IF check_shade_width(Head(shades), tol)[1]
          THEN <<>>
          ELSE <<check_shade_width(Head(shades), tol)[2]>>)
             \o FailingShadeWarnings(Tail(shades), tol)

\* C4: with at least one indoor shade, has_internal_shades is true exactly
\* when every indoor shade passes check_shade_width, and the width warnings
\* of the Window are one warning per failing indoor shade, in list order,
\* duplicates kept; with no indoor shade has_internal_shades is false.
C4_InternalShadesAndWidthWarnings ==
    pc = "done" =>
        /\ window.has_internal_shades =
               /\ Len(aperture.indoor_shades) >= 1
               /\ \A i \in 1..Len(aperture.indoor_shades) :
                      check_shade_width(aperture.indoor_shades[i], tolerance)[1]
        /\ SelectSeq(window.warnings, LAMBDA w : w # SchoolWarning)
               = FailingShadeWarnings(aperture.indoor_shades, tolerance)

\* A Window whose two indoor shades are the same failing curtain: the
\* warning appears twice.
C4_Witness ==
    /\ pc = "done"
    /\ Len(aperture.indoor_shades) = 2
    /\ aperture.indoor_shades[1] = aperture.indoor_shades[2]
    /\ Len(window.warnings) >= 2
    /\ window.warnings[1] = "Shade curtain is wider than 4 meters."
    /\ window.warnings[2] = "Shade curtain is wider than 4 meters."

\* The School warning as the claim words it, without the quotes around
\* School.
UnquotedSchoolWarning == "For the program type of School shades are required."

\* C5 as stated: a non-compliant window under School ends its warnings with
\* the text "For the program type of School shades are required.", after the
\* width warnings; every other window has the width warnings only.
C5_SchoolWarningAsStated ==
    pc = "done" =>
        window.warnings =
            FailingShadeWarnings(aperture.indoor_shades, tolerance)
                \o (IF ~ window.has_shades /\ program = "School"
                    THEN <<UnquotedSchoolWarning>>
                    ELSE <<>>)

\* C5 amended: the fixed warning is the text
\* 'For the program type of "School" shades are required.' (School in double
\* quotes).  A non-compliant window under School ends its warnings with it,
\* after the width warnings; under every other program, and for a compliant
\* window, the warnings are the width warnings only; an aperture with no
\* shades has exactly that one warning under School and none under General.
C5_SchoolWarning ==
    pc = "done" =>
        /\ window.warnings =
               FailingShadeWarnings(aperture.indoor_shades, tolerance)
                   \o (IF ~ window.has_shades /\ program = "School"
                       THEN <<"For the program type of \"School\" shades are required.">>
                       ELSE <<>>)
        /\ (aperture.outdoor_shades = <<>> /\ aperture.indoor_shades = <<>>) =>
               /\ window.has_shades = FALSE
               /\ program = "School" =>
                      window.warnings =
                          <<"For the program type of \"School\" shades are required.">>
               /\ program = "General" => window.warnings = <<>>

\* A School window whose only shade is a failing curtain: the width warning
\* first, the School warning after it.
C5_Witness ==
    /\ pc = "done"
    /\ program = "School"
    /\ aperture.outdoor_shades = <<>>
    /\ Len(aperture.indoor_shades) = 1
    /\ Len(window.warnings) = 2
    /\ window.warnings[1] = "Shade curtain is wider than 4 meters."
    /\ window.warnings[2] = SchoolWarning

(***************************************************************************)
(* Properties of check_shade_width (SpecShade).                            *)
(***************************************************************************)

\* A distance rounds to more than 2.0 m exactly when it is more than 2.05 m
\* (410 half-centimetres): round(2.05, 1) is 2.0.
RoundsAboveTwoMetres(d2) == d2 > 410 * 410

PassResult == <<TRUE, "">>

\* C6: for a polygon of at most 4 vertices check_shade_width fails with the
\* "wider than 4 meters" warning if and only if the distance from the centre
\* to the midpoint of some boundary edge, rounded to one decimal, exceeds
\* 2.0; otherwise it passes.  A square of side 3 m passes and one of side 5 m
\* fails.
C6_RadialRule ==
    (pc = "done" /\ Len(shade.vertices) <= 4) =>
        /\ width_check =
               IF \E i \in 1..Len(shade.vertices) :
                      RoundsAboveTwoMetres(
                          distance_sq(center(shade.vertices),
                                      midpoint(boundary_segments(shade.vertices)[i])))
               THEN <<FALSE, "Shade " \o shade.display_name \o " is wider than 4 meters.">>
               ELSE PassResult
        /\ shade = Rect("rect", 300, 300) => width_check = PassResult
        /\ shade = Rect("rect", 500, 500) =>
               width_check = <<FALSE, "Shade rect is wider than 4 meters.">>

\* A rectangle 4.12 m wide (centre to side 2.06 m, rounded 2.1) has failed.
C6_Witness ==
    /\ pc = "done"
    /\ shade = Rect("rect", 412, 150)
    /\ width_check = <<FALSE, "Shade rect is wider than 4 meters.">>

\* The extent of the vertices along x: the width of a rectangle of the
\* vertical x-z plane.
WidthOf(vs) == SeqMax(Coord(vs, 1)) - SeqMin(Coord(vs, 1))

\* C7: no 4-vertex rectangle wider than 4 m is reported as passing.
C7_NoWideRectanglePasses ==
    (pc = "done" /\ Len(shade.vertices) = 4 /\ WidthOf(shade.vertices) > 400) =>
        width_check[1] = FALSE

\* C8: for a polygon of more than 4 vertices, check_shade_width fails with
\* the "could not validate" warning when the polygon is horizontal within
\* tolerance or the vertical-edge extraction returns nothing, whatever the
\* width; otherwise it fails with "wider than 4 meters" exactly when the
\* left edge's midpoint is more than 4.0 m from the closest point of the
\* right edge, and passes otherwise.
C8_ComplexPolygonFailsClosed ==
    (pc = "done" /\ Len(shade.vertices) > 4) =>
        LET cannot == <<FALSE, "The app could not validate shade "
                                   \o shade.display_name
                                   \o ". Make sure the width is less than 4 meters wide.">>
            wider  == <<FALSE, "Shade " \o shade.display_name \o " is wider than 4 meters.">>
            flat   == SeqMax(Coord(shade.vertices, 3)) - SeqMin(Coord(shade.vertices, 3))
                          <= tolerance
        IN  /\ flat => width_check = cannot
            /\ shade.left_right_edges = None => width_check = cannot
            /\ (~ flat /\ shade.left_right_edges # None) =>
                   LET m == midpoint(shade.left_right_edges[1])
                       c == closest_point(shade.left_right_edges[2], m)
                   IN  width_check =
                           IF distance_sq(m, c) > 800 * 800 THEN wider ELSE PassResult

\* A flat octagon 5 m wide got the "could not validate" warning.
C8_Witness ==
    /\ pc = "done"
    /\ shade = Shade("octagon", OctVertices(500, 0), None)
    /\ width_check = <<FALSE, "The app could not validate shade octagon."
                                  \o " Make sure the width is less than 4 meters wide.">>

(***************************************************************************)
(* Properties of scoring (SpecScore).                                      *)
(***************************************************************************)

\* C9: the credits are 2 when the overall compliant fraction is at least
\* the credit-2 threshold of the program, otherwise 1 when it is at least
\* the credit-1 threshold, otherwise 0; a fraction equal to a threshold
\* gets the higher band.
C9_CreditLadder ==
    pc = "done" =>
        LET p  == outcome.compliant_area_percentage
            c1 == program.credit_1_threshold
            c2 == program.credit_2_threshold
        IN  /\ outcome.credits \in {0, 1, 2}
            /\ outcome.credits = 2 <=> p[1] * c2[2] >= c2[1] * p[2]
            /\ outcome.credits = 1 <=>
                   (p[1] * c1[2] >= c1[1] * p[2] /\ p[1] * c2[2] < c2[1] * p[2])
            /\ outcome.credits = 0 <=> p[1] * c1[2] < c1[1] * p[2]
            /\ p = c2 => outcome.credits = 2
            /\ p = c1 => outcome.credits >= 1

\* A School run whose fraction is exactly 0.9, the credit-2 threshold, got
\* 2 credits.
C9_Witness ==
    /\ pc = "done"
    /\ program = ProgramSchool
    /\ outcome.compliant_area_percentage = <<9, 10>>
    /\ outcome.credits = 2

\* C10: the compliant area computed for a (room, timepoint) is the room's
\* floor area times the number of sensor values at or above the program's
\* minimum illuminance divided by the number of sensor values; a result
\* file with no sensor value ends the run with an error and no score.
C10_FractionCompliant ==
    /\ (pc = "times" /\ Len(results.compliant_areas) >= 1) =>
           LET area == results.compliant_areas[Len(results.compliant_areas)]
               n    == Cardinality({k \in 1..Len(res_file.rows) :
                                       res_file.rows[k] >= program.min_threshold})
           IN  /\ res_file.exists
               /\ Len(res_file.rows) > 0
               /\ area[1] * Len(res_file.rows)
                      = occupied_rooms[results.i].floor_area * n * area[2]
    /\ (pc \in {"rooms", "times", "done", "error"}
            /\ res_file.exists /\ res_file.rows = <<>>) =>
           /\ pc = "error"
           /\ outcome.error = "ZeroDivisionError"
           /\ outcome.credits = -1

\* After one timepoint of the office scored 5 of 10 square metres, the next
\* result file was empty and the run ended with the error.
C10_Witness ==
    /\ pc = "error"
    /\ res_file = ResFile(<<>>)
    /\ results.compliant_areas = << <<5, 1>> >>
    /\ outcome.error = "ZeroDivisionError"

\* C11: each room's average compliant area is the unweighted mean of exactly
\* six compliant areas, one per timepoint of SIM_TIMES; a read of a missing
\* result file ends the whole run with an error and without a score, adding
\* no value for the timepoint; a run that ends with a score has averaged
\* every selected room.
C11_SixTimepointMean ==
    [][/\ (pc = "times" /\ pc' = "rooms") =>
              /\ Len(results'.compliant_areas) = 6
              /\ Len(results'.average) = Len(results.average) + 1
              /\ RatMul(<<6, 1>>, results'.average[Len(results'.average)])
                     = RatSum(results'.compliant_areas)
       /\ (pc = "times" /\ ~ res_file'.exists) =>
              /\ pc' = "error"
              /\ outcome'.error = "FileNotFoundError"
              /\ outcome'.credits = -1
              /\ results' = results
       /\ pc' = "done" =>
              /\ Len(results'.average) = Len(occupied_rooms)
              /\ Len(results'.names) = Len(occupied_rooms)]_vars

\* The first room was averaged; the sixth result file of the second room is
\* missing and the run ended with the error, with five values read.
C11_Witness ==
    /\ pc = "error"
    /\ ~ res_file.exists
    /\ outcome.error = "FileNotFoundError"
    /\ outcome.credits = -1
    /\ Len(results.average) = 1
    /\ Len(results.compliant_areas) = 5

\* C12: the overall compliant fraction is the sum of the rooms' average
\* compliant areas divided by the sum of their floor areas; with an empty
\* room list or a total floor area of zero the run fails with an error of
\* its own, not with a division by zero.
C12_OverallFractionWithExplicitGuard ==
    /\ pc = "done" =>
           outcome.compliant_area_percentage =
               RatDiv(RatSum(results.average),
                      RatSum([k \in 1..Len(occupied_rooms) |->
                                 <<occupied_rooms[k].floor_area, 1>>]))
    /\ (pc \in {"done", "error"} /\ results.i = Len(occupied_rooms) + 1
            /\ results.total_area = 0) =>
           /\ pc = "error"
           /\ outcome.error # "ZeroDivisionError"

\* C14: every program that has thresholds (General, Residential, School)
\* has 0 < credit-1 area fraction <= credit-2 area fraction <= 1 and a
\* positive minimum illuminance.
C14_ThresholdsOrdered ==
    /\ program \in Programs
    /\ {p.name : p \in Programs} = {"General", "Residential", "School"}
    /\ \A p \in Programs \cup {program} :
           /\ p.min_threshold > 0
           /\ p.credit_1_threshold[1] > 0 /\ p.credit_1_threshold[2] > 0
           /\ RatGeq(p.credit_2_threshold, p.credit_1_threshold)
           /\ RatGeq(<<1, 1>>, p.credit_2_threshold)

\* A School run scored between its two thresholds: one credit.
C14_Witness ==
    /\ pc = "done"
    /\ program = ProgramSchool
    /\ program.credit_1_threshold = <<3, 4>>
    /\ program.credit_2_threshold = <<9, 10>>
    /\ outcome.credits = 1

(***************************************************************************)
(* Properties of the warnings (SpecRoom).                                  *)
(***************************************************************************)

\* C18: no empty warning string is surfaced.  check_shade_width returns
\* (True, '') for a shade that passes and a text for one that fails; after
\* the evaluation of a room neither the warnings of a Window, nor the
\* warnings of the OccupiedArea, nor a per-window record holds an empty
\* string, and a per-window record has a 'warning' entry only when the
\* window has at least one warning.
C18_NoEmptyWarning ==
    pc = "done" =>
        LET aps == visited_apertures(room.faces)
        IN  /\ \A i \in 1..Len(aps) : \A j \in 1..Len(aps[i].indoor_shades) :
                   LET r == check_shade_width(aps[i].indoor_shades[j], tolerance)
                   IN  IF r[1] THEN r[2] = "" ELSE r[2] # ""
            /\ \A i \in 1..Len(occupied_area.windows_created) :
                   \A j \in 1..Len(occupied_area.windows_created[i].warnings) :
                       occupied_area.windows_created[i].warnings[j] # ""
            /\ \A j \in 1..Len(occupied_area.warnings) : occupied_area.warnings[j] # ""
            /\ Len(occupied_area.windows) = Len(occupied_area.windows_created)
            /\ \A i \in 1..Len(occupied_area.windows) :
                   LET record == occupied_area.windows[i]
                   IN  /\ "warning" \in DOMAIN record
                              <=> Len(occupied_area.windows_created[i].warnings) >= 1
                       /\ "warning" \in DOMAIN record =>
                              /\ Len(record.warning) >= 1
                              /\ \A j \in 1..Len(record.warning) : record.warning[j] # ""

\* A General room with a finned window (no warning, a record without the
\* 'warning' entry) and a curtained one (the blind passes with '', the
\* curtain fails: one warning, kept in the record).
C18_Witness ==
    /\ pc = "done"
    /\ program = "General"
    /\ Len(occupied_area.windows) = 2
    /\ "warning" \notin DOMAIN occupied_area.windows[1]
    /\ "warning" \in DOMAIN occupied_area.windows[2]
    /\ occupied_area.windows[2].warning = <<"Shade curtain is wider than 4 meters.">>
    /\ occupied_area.warnings = <<"Shade curtain is wider than 4 meters.">>

(***************************************************************************)
(* Properties of the session (SpecSession).                                *)
(***************************************************************************)

C15_ForwardWithoutSkipping ==
    /\ session.unique_occupied_areas # <<>> => session.uploaded
    /\ session.job.status # "none" =>
           /\ session.unique_occupied_areas # <<>>
           /\ session.rule_evaluated
    /\ "submit" \in session.ran => "grids" \in session.ran
    /\ "download" \in session.ran => session.job.status = "completed"
    /\ "score" \in session.ran =>
           /\ "download" \in session.ran
           /\ \A i \in 1..Len(occupied_rooms) : \A k \in 1..Len(SIM_TIMES) :
                  /\ has_key(session.job, SIM_TIMES[k])
                  /\ res_file_path(session.job, sim_dict(session.job, SIM_TIMES[k]),
                                   "grid_" \o occupied_rooms[i].display_name \o ".res").exists

\* The grids of the current selection, as sensor_grids names them.
GridsOfSelection ==
    [i \in 1..Len(session.unique_occupied_areas) |->
        "grid_" \o get_room_dict(HBModelRooms)[session.unique_occupied_areas[i]].display_name]

C17_TimepointKeys ==
    LET six == {"9_21_10", "9_21_12", "9_21_14", "6_21_10", "6_21_12", "6_21_14"}
        keys == session.job.month_day_hour
    IN  session.job.status # "none" =>
            /\ Len(keys) = 6
            /\ {keys[i] : i \in 1..Len(keys)} = six
            /\ {VizKeys[k] : k \in 1..Len(VizKeys)} = six
            /\ {SIM_TIMES[k] : k \in 1..Len(SIM_TIMES)} = six
            /\ \A key \in six : Cardinality({i \in 1..Len(keys) : keys[i] = key}) = 1
            /\ session.job.status = "completed" =>
                   /\ visualization(session.job).error = ""
                   /\ \A key \in six : keys[sim_dict(session.job, key)] = key

\* A complete job whose results were downloaded and scored.
C17_Witness ==
    /\ session.job.status = "completed"
    /\ session.job.month_day_hour[4] = "9_21_14"
    /\ "download" \in session.ran
    /\ "score" \in session.ran

\* C19: unique_occupied_areas holds each name at most once and exactly the
\* names of occupied_areas; Add appends the staged names to occupied_areas,
\* Clear empties both lists, and nothing else changes occupied_areas.
C19_UniqueOccupiedAreas ==
    [][LET unique == session'.unique_occupied_areas
           areas  == session'.occupied_areas
       IN  /\ \A i, j \in 1..Len(unique) : unique[i] = unique[j] => i = j
           /\ {unique[i] : i \in 1..Len(unique)} = {areas[i] : i \in 1..Len(areas)}
           /\ ClearAreas => (areas = <<>> /\ unique = <<>>)
           /\ \/ areas = session.occupied_areas
              \/ ClearAreas
              \/ AddAreas /\ areas = session.occupied_areas \o session.staged]_vars

\* The office was added twice: once in unique_occupied_areas.
C19_Witness ==
    /\ pc = "session"
    /\ session.occupied_areas = <<"office", "office">>
    /\ session.unique_occupied_areas = <<"office">>
    /\ Len(occupied_rooms) = 1

C21_InputsAndResultUnchanged ==
    [][/\ room' = room
       /\ program' = program
       /\ tolerance' = tolerance
       /\ pc \in {"done", "dict"} => occupied_area' = occupied_area
       /\ pc' = "dict" =>
              /\ details'.name = room.display_name
              /\ details'.has_windows = occupied_area.has_windows
              /\ details'.has_shades = occupied_area.has_shades
              /\ details'.windows = occupied_area.windows]_vars

\* to_dict() was called on a School room with four windows and six
\* warnings: the room and the object are as before the call.
C21_Witness ==
    /\ pc = "dict"
    /\ program = "School"
    /\ Len(room.faces) = 3
    /\ Len(details.windows) = 4
    /\ Len(occupied_area.windows) = 4
    /\ Len(occupied_area.warnings) = 6

\* C22: a room that reports a positive exterior aperture area while none of
\* its faces exposes an aperture is reported as a data inconsistency: its
\* evaluation carries at least one warning and its has_shades is false.
C22_NoApertureIsAnInconsistency ==
    (/\ pc \in {"done", "dict"}
     /\ room.exterior_aperture_area > 0
     /\ \A f \in 1..Len(room.faces) : room.faces[f] = <<>>) =>
        /\ Len(occupied_area.warnings) >= 1
        /\ occupied_area.has_shades = FALSE

\* The number of apertures on the faces before face f.
RECURSIVE AperturesBefore(_, _)
AperturesBefore(faces, f) ==
    IF f <= 1 THEN 0 ELSE AperturesBefore(faces, f - 1) + Len(faces[f - 1])

\* The number of warnings of the windows before window i.
RECURSIVE WarningsBefore(_, _)
WarningsBefore(ws, i) ==
    IF i <= 1 THEN 0 ELSE WarningsBefore(ws, i - 1) + Len(ws[i - 1].warnings)

\* C23: the warnings of an OccupiedArea are the warnings of its Windows one
\* after the other, the Windows taken face by face in room order and
\* aperture by aperture in face order: every warning of every Window once,
\* at its place, and nothing else.
C23_WarningsInTraversalOrder ==
    (pc = "done" /\ room.exterior_aperture_area > 0) =>
        LET ws == occupied_area.windows_created
        IN  /\ Len(ws) = AperturesBefore(room.faces, Len(room.faces) + 1)
            /\ \A f \in 1..Len(room.faces) : \A a \in 1..Len(room.faces[f]) :
                   ws[AperturesBefore(room.faces, f) + a].name
                       = room.faces[f][a].display_name
            /\ Len(occupied_area.warnings) = WarningsBefore(ws, Len(ws) + 1)
            /\ \A i \in 1..Len(ws) : \A j \in 1..Len(ws[i].warnings) :
                   occupied_area.warnings[WarningsBefore(ws, i) + j] = ws[i].warnings[j]

\* A General room whose faces hold a draped and a curtained window, no
\* window, a canopied and a finned window: the three warnings in that order.
C23_Witness ==
    /\ pc = "done"
    /\ program = "General"
    /\ Len(room.faces) = 3
    /\ occupied_area.warnings =
           <<"Shade drape is wider than 4 meters.",
             "Shade curtain is wider than 4 meters.",
             "The app could not validate shade canopy."
                 \o " Make sure the width is less than 4 meters wide.">>

(***************************************************************************)
(* Warnings and compliance of a Window (SpecWindow).                       *)
(***************************************************************************)

\* C26: the warnings of a Window are non-empty only if one of its indoor
\* shades failed check_shade_width or the window has no shades under the
\* School program.  A window that has shades through an outdoor shade still
\* carries the width warnings of its failing indoor shades: warnings do not
\* imply has_shades = false.
C26_WarningsWithoutNonCompliance ==
    pc = "done" =>
        LET failing == {i \in 1..Len(aperture.indoor_shades) :
                           ~ check_shade_width(aperture.indoor_shades[i], tolerance)[1]}
        IN  /\ window.warnings # <<>> =>
                   \/ failing # {}
                   \/ (~ window.has_shades /\ program = "School")
            /\ (Len(aperture.outdoor_shades) >= 1 /\ failing # {}) =>
                   /\ window.has_shades = TRUE
                   /\ window.has_internal_shades = FALSE
                   /\ Len(window.warnings) = Cardinality(failing)
                   /\ \A j \in 1..Len(window.warnings) :
                          \E i \in failing :
                              window.warnings[j]
                                  = check_shade_width(aperture.indoor_shades[i], tolerance)[2]

\* A School window with an outdoor fin, a blind that passes and a curtain
\* 5 m wide: it has shades, and one warning.
C26_Witness ==
    /\ pc = "done"
    /\ program = "School"
    /\ Len(aperture.outdoor_shades) = 1
    /\ Len(aperture.indoor_shades) = 2
    /\ aperture.indoor_shades[1].display_name = "blind"
    /\ window.has_shades = TRUE
    /\ window.warnings = <<"Shade curtain is wider than 4 meters.">>

(***************************************************************************)
(* Order and range of the values of prepare_results (SpecScore).           *)
(***************************************************************************)
\* The fractions a result file of ResFileInputs can give.
FractionsRead ==
    {percentage_complied(res, p.min_threshold).value :
        res \in {r \in ResFileInputs : r.exists /\ Len(r.rows) > 0}, p \in Programs}

\* C25: the average of a room is computed only after the six timepoints of
\* that room were computed, and the building's fraction only after the
\* averages of all selected rooms: while a room is being read it has no
\* average, its average is appended when all six values of that room are
\* there, and the fraction is given when every room has its average.
C25_FanInBarrier ==
    [][/\ (pc = "times" /\ Len(results.compliant_areas) < Len(SIM_TIMES)) =>
              /\ Len(results.average) = results.i - 1
              /\ results'.average = results.average
              /\ outcome'.credits = -1
       /\ results'.average # results.average =>
              /\ Len(results.compliant_areas) = Len(SIM_TIMES)
              /\ results'.compliant_areas = results.compliant_areas
              /\ \A k \in 1..Len(results.compliant_areas) :
                     \E f \in FractionsRead :
                         results.compliant_areas[k]
                             = compliant_area_of(occupied_rooms[results.i].floor_area, f)
              /\ Len(results'.average) = results.i
       /\ (pc # "done" /\ pc' = "done") =>
              /\ results.i = Len(occupied_rooms) + 1
              /\ Len(results.average) = Len(occupied_rooms)
              /\ results.total_average_area = RatSum(results.average)
              /\ results' = results]_vars

\* Both rooms were averaged, with different averages, and the fraction of
\* the building was given.
C25_Witness ==
    /\ pc = "done"
    /\ Len(occupied_rooms) = 2
    /\ Len(results.average) = 2
    /\ Len(results.compliant_areas) = 6
    /\ results.average[1] # results.average[2]
    /\ outcome.compliant_area_percentage # <<0, 1>>

\* C27: each compliant area of a room at a timepoint, and each average of a
\* room, lies between zero and the floor area of the room; the fraction of
\* the building lies between zero and one.
C27_AreasAndFractionInRange ==
    /\ pc = "times" =>
           \A k \in 1..Len(results.compliant_areas) :
               /\ RatGeq(results.compliant_areas[k], <<0, 1>>)
               /\ RatGeq(<<occupied_rooms[results.i].floor_area, 1>>,
                         results.compliant_areas[k])
    /\ \A r \in 1..Len(results.average) :
           /\ RatGeq(results.average[r], <<0, 1>>)
           /\ RatGeq(<<results.areas[r], 1>>, results.average[r])
    /\ pc = "done" =>
           /\ RatGeq(outcome.compliant_area_percentage, <<0, 1>>)
           /\ RatGeq(<<1, 1>>, outcome.compliant_area_percentage)

\* A run that ended with a fraction strictly between zero and one, with a
\* room whose average is strictly inside its range.
C27_Witness ==
    /\ pc = "done"
    /\ Len(results.average) = 2
    /\ ~ RatGeq(<<0, 1>>, results.average[1])
    /\ ~ RatGeq(results.average[1], <<results.areas[1], 1>>)
    /\ results.average[2] = <<results.areas[2], 1>>
    /\ ~ RatGeq(<<0, 1>>, outcome.compliant_area_percentage)
    /\ ~ RatGeq(outcome.compliant_area_percentage, <<1, 1>>)

(***************************************************************************)
(* Evaluation of every window and of every selected room (SpecSession).    *)
(***************************************************************************)

\* C24: a shade that fails the width check on one window does not stop the
\* evaluation of the other windows or rooms: the evaluation of the selected
\* rooms gives one row per room, in the order of the selection, and the row
\* of a room with a positive exterior aperture area holds one Window record
\* per aperture of each of its faces, warnings or not.
C24_EveryWindowAndRoomEvaluated ==
    (pc = "session" /\ "validate" \in session.ran) =>
        /\ Len(session.evaluated) = Len(occupied_rooms)
        /\ \A i \in 1..Len(occupied_rooms) :
               LET row == session.evaluated[i]
                   aps == visited_apertures(occupied_rooms[i].faces)
               IN  /\ row.Name = occupied_rooms[i].display_name
                   /\ occupied_rooms[i].exterior_aperture_area > 0 =>
                          /\ Len(row.details.windows) = Len(aps)
                          /\ \A k \in 1..Len(aps) :
                                 row.details.windows[k].name = aps[k].display_name

\* The hall, whose first window has a curtain that fails, was evaluated
\* before the office: the second window of the hall and the office have
\* their records.
C24_Witness ==
    /\ pc = "session"
    /\ "validate" \in session.ran
    /\ Len(session.evaluated) = 2
    /\ session.evaluated[1].Name = "Hall"
    /\ session.evaluated[1].Warnings = 1
    /\ Len(session.evaluated[1].details.windows) = 2
    /\ "warning" \in DOMAIN session.evaluated[1].details.windows[1]
    /\ session.evaluated[1].details.windows[2].has_external_shades = TRUE
    /\ session.evaluated[2].Name = "Office"

(***************************************************************************)
(* The selection and the uploaded model (SpecSelect).                      *)
(***************************************************************************)

\* C28: after any sequence of uploads, Add and Clear, every selected name is
\* a key of the room dictionary of the uploaded model, and the lookup of the
\* selected rooms does not fail.
C28_SelectionWithinTheModel ==
    session.hb_model # None =>
        /\ outcome.error # "KeyError"
        /\ \A i \in 1..Len(session.unique_occupied_areas) :
               session.unique_occupied_areas[i] \in DOMAIN get_room_dict(session.hb_model)

(***************************************************************************)
(* The form of the simulation and the status of the job (SpecJob).         *)
(***************************************************************************)

\* C29: results are downloaded and returned only for a finished job.
\* request_status gives INCOMPLETE for pre_processing, running, created and
\* unknown, FAILED for failed, CANCELLED for cancelled and COMPLETE for
\* every other status; visualization() downloads nothing and returns no
\* dicts unless the status is COMPLETE, and nothing is scored on a job that
\* failed, was cancelled or still runs.
C29_ResultsOnlyOfAFinishedJob ==
    /\ session.viz # NotViewed =>
           /\ session.viz.status_seen \in {"pre_processing", "running", "created", "unknown"}
                  => session.viz.sim_status = "INCOMPLETE"
           /\ session.viz.status_seen = "failed" => session.viz.sim_status = "FAILED"
           /\ session.viz.status_seen = "cancelled" => session.viz.sim_status = "CANCELLED"
           /\ session.viz.status_seen \notin {"pre_processing", "running", "created",
                                              "unknown", "failed", "cancelled"}
                  => session.viz.sim_status = "COMPLETE"
           /\ session.viz.sim_status # "COMPLETE" =>
                  /\ ~ session.viz.downloaded
                  /\ pc \notin {"viewed", "done"}
    /\ pc \in {"viewed", "done"} =>
           /\ session.viz.downloaded
           /\ session.job.status = "completed"
    /\ outcome # NoOutcome => session.job.status = "completed"

\* visualization() looked at a cancelled job and returned nothing; the job
\* had been looked at while it ran.
C29_Witness ==
    /\ pc = "job"
    /\ session.job.status = "cancelled"
    /\ session.viz.status_seen = "cancelled"
    /\ session.viz.sim_status = "CANCELLED"
    /\ ~ session.viz.downloaded
    /\ outcome = NoOutcome

\* C30: with Submit pressed, simulation() creates a job if and only if the
\* API key, the owner and the project are not empty, and shows its error
\* only when one of the three is missing, whatever the latitude and the
\* longitude, zero included.
C30_JobIffTextsFilled ==
    session.submit =>
        /\ session.job.status # "none" <=>
               (session.api_key # "" /\ session.owner # "" /\ session.project # "")
        /\ session.error_shown =>
               (session.api_key = "" \/ session.owner = "" \/ session.project = "")

=============================================================================
